---- MODULE Spec2Model ----
(***************************************************************************)
(* Rot3 (3x3 matrix representation) of gtsam/geometry/Rot3M.cpp.           *)
(*                                                                         *)
(* Every double of the program is modelled by an exact rational.  A Rot3,  *)
(* a Matrix and a Point3 keep their numerators over one common positive    *)
(* denominator `den`, reduced to lowest terms, so that equal values have   *)
(* equal representations.  An angle is modelled by its cosine and sine     *)
(* (c/d, s/d with c*c + s*s = d*d): sin() and cos() read them off, atan2() *)
(* and acos() build them.  Values that are products of an irrational       *)
(* scalar and a rational vector (the results of Logmap) keep the scalar    *)
(* symbolically.                                                           *)
(***************************************************************************)
EXTENDS Integers, Sequences, FiniteSets, TLC

VARIABLES R, ret

vars == <<R, ret>>

(***************************************************************************)
(* Bounds of the model.                                                    *)
(***************************************************************************)
\* largest denominator of a rotation the client keeps in its variable R
MaxDen == 1
\* components of the rational tangent vectors range over -MaxOmega..MaxOmega
MaxOmega == 1
\* components of the points range over -MaxPoint..MaxPoint
MaxPoint == 1
\* column indices range over -1..MaxIndex
MaxIndex == 4

(***************************************************************************)
(* Integer helpers.                                                        *)
(***************************************************************************)
Abs(n) == IF n < 0 THEN -n ELSE n

RECURSIVE GCD(_, _)
GCD(a, b) == IF b = 0 THEN Abs(a) ELSE GCD(b, a % Abs(b))

GCD3(v) == GCD(v[1], GCD(v[2], v[3]))

LCM(a, b) == (a \div GCD(a, b)) * b

\* floor of the square root (Newton iteration on integers)
RECURSIVE SqrtIter(_, _)
SqrtIter(n, g) ==
  LET h == (g + n \div g) \div 2
  IN IF h >= g THEN g ELSE SqrtIter(n, h)

ISqrt(n) == IF n <= 0 THEN 0 ELSE SqrtIter(n, n)

IsSquare(n) == n >= 0 /\ ISqrt(n) * ISqrt(n) = n

(***************************************************************************)
(* 3-vectors and 3x3 matrices of numerators.                               *)
(***************************************************************************)
VScale(k, v) == <<k * v[1], k * v[2], k * v[3]>>
VAdd(u, v) == <<u[1] + v[1], u[2] + v[2], u[3] + v[3]>>
VDiv(v, g) == <<v[1] \div g, v[2] \div g, v[3] \div g>>
Dot(u, v) == u[1] * v[1] + u[2] * v[2] + u[3] * v[3]
Zero3 == <<0, 0, 0>>

MCol(m, j) == <<m[1][j], m[2][j], m[3][j]>>
MMul(a, b) ==
  <<<<Dot(a[1], MCol(b, 1)), Dot(a[1], MCol(b, 2)), Dot(a[1], MCol(b, 3))>>,
    <<Dot(a[2], MCol(b, 1)), Dot(a[2], MCol(b, 2)), Dot(a[2], MCol(b, 3))>>,
    <<Dot(a[3], MCol(b, 1)), Dot(a[3], MCol(b, 2)), Dot(a[3], MCol(b, 3))>>>>
MTrans(m) == <<MCol(m, 1), MCol(m, 2), MCol(m, 3)>>
MScale(k, m) == <<VScale(k, m[1]), VScale(k, m[2]), VScale(k, m[3])>>
MAdd(a, b) == <<VAdd(a[1], b[1]), VAdd(a[2], b[2]), VAdd(a[3], b[3])>>
MDivBy(m, g) == <<VDiv(m[1], g), VDiv(m[2], g), VDiv(m[3], g)>>
MGcd(m) == GCD(GCD3(m[1]), GCD(GCD3(m[2]), GCD3(m[3])))
Eye == <<<<1, 0, 0>>, <<0, 1, 0>>, <<0, 0, 1>>>>
MDet(m) ==
    m[1][1] * (m[2][2] * m[3][3] - m[2][3] * m[3][2])
  - m[1][2] * (m[2][1] * m[3][3] - m[2][3] * m[3][1])
  + m[1][3] * (m[2][1] * m[3][2] - m[2][2] * m[3][1])
\* adjugate: MMul(m, MAdj(m)) = MDet(m) * Eye
MAdj(m) ==
  <<<<m[2][2] * m[3][3] - m[2][3] * m[3][2],
      m[1][3] * m[3][2] - m[1][2] * m[3][3],
      m[1][2] * m[2][3] - m[1][3] * m[2][2]>>,
    <<m[2][3] * m[3][1] - m[2][1] * m[3][3],
      m[1][1] * m[3][3] - m[1][3] * m[3][1],
      m[1][3] * m[2][1] - m[1][1] * m[2][3]>>,
    <<m[2][1] * m[3][2] - m[2][2] * m[3][1],
      m[1][2] * m[3][1] - m[1][1] * m[3][2],
      m[1][1] * m[2][2] - m[1][2] * m[2][1]>>>>

(***************************************************************************)
(* The external dense-matrix library (gtsam Matrix / Eigen): a Matrix is   *)
(* [m |-> rows of numerators, den |-> common denominator].                 *)
(***************************************************************************)
\* a Matrix in lowest terms with a positive denominator
Mat(m, den) ==
  LET s == IF den < 0 THEN -1 ELSE 1
      g == GCD(MGcd(m), den)
  IN [m |-> MDivBy(MScale(s, m), g), den |-> (s * den) \div g]

\* the content of a Jacobian slot that was not written
NoMatrix == [m |-> <<>>, den |-> 0]

\* static const Matrix I3 = eye(3)
I3 == Mat(Eye, 1)

\* Matrix operator*
MatMul(A, B) == Mat(MMul(A.m, B.m), A.den * B.den)
\* unary minus
MatNeg(A) == Mat(MScale(-1, A.m), A.den)
\* A + B, A - B
MatAdd(A, B) == Mat(MAdd(MScale(B.den, A.m), MScale(A.den, B.m)), A.den * B.den)
MatSub(A, B) == MatAdd(A, MatNeg(B))
\* A / k for an integer k
MatDivInt(A, k) == Mat(A.m, A.den * k)
\* A.inverse() of a fixed-size matrix: adjugate over determinant
MatInvertible(A) == MDet(A.m) # 0
MatInverse(A) == Mat(MScale(A.den, MAdj(A.m)), MDet(A.m))

\* skewSymmetric(wx, wy, wz) over the denominator den
skewSymmetric(wx, wy, wz, den) ==
  Mat(<<<<0, -wz, wy>>, <<wz, 0, -wx>>, <<-wy, wx, 0>>>>, den)

\* template<int N> Cayley(A) = (I - A) * (I + A).inverse()
CayleyDefined(A) == MatInvertible(MatAdd(I3, A))
Cayley(A) == MatMul(MatSub(I3, A), MatInverse(MatAdd(I3, A)))

(***************************************************************************)
(* Point3: [x, y, z, den].                                                 *)
(***************************************************************************)
Point3(x, y, z, den) ==
  LET g == GCD(GCD3(<<x, y, z>>), den)
  IN [x |-> x \div g, y |-> y \div g, z |-> z \div g, den |-> den \div g]

PNum(p) == <<p.x, p.y, p.z>>

(***************************************************************************)
(* Angles: [c, s, d] is the angle in (-pi, pi] with cosine c/d, sine s/d.  *)
(* +pi and -pi are the same angle here: every use of an angle in the       *)
(* program that the model follows goes through its sine and cosine.        *)
(***************************************************************************)
Angle(c, s, d) ==
  LET g == GCD(GCD(c, s), d)
  IN [c |-> c \div g, s |-> s \div g, d |-> d \div g]

AngleZero == Angle(1, 0, 1)
AnglePi == Angle(-1, 0, 1)
AngleNeg(t) == [c |-> t.c, s |-> -t.s, d |-> t.d]
AngleAbs(t) == [c |-> t.c, s |-> Abs(t.s), d |-> t.d]

\* atan2(y, x) of two values with a common positive denominator is exact
\* when the hypotenuse of the numerators is an integer; atan2(0, 0) = 0
Atan2Defined(y, x) == IsSquare(x * x + y * y)
atan2(y, x) ==
  IF x = 0 /\ y = 0 THEN AngleZero ELSE Angle(x, y, ISqrt(x * x + y * y))

(***************************************************************************)
(* Scalars of the closed-form code: rationals [n, d] in lowest terms.      *)
(***************************************************************************)
Q(n, d) ==
  LET s == IF d < 0 THEN -1 ELSE 1
      g == GCD(n, d)
  IN [n |-> (s * n) \div g, d |-> (s * d) \div g]

QInt(n) == [n |-> n, d |-> 1]
QAdd(p, q) ==
  LET l == LCM(p.d, q.d)
  IN Q(p.n * (l \div p.d) + q.n * (l \div q.d), l)
QNeg(p) == [n |-> -p.n, d |-> p.d]
QSub(p, q) == QAdd(p, QNeg(q))
\* the common factors are cancelled before the products are formed
QMul(p, q) ==
  LET g1 == GCD(p.n, q.d)
      g2 == GCD(q.n, p.d)
  IN Q((p.n \div g1) * (q.n \div g2), (p.d \div g2) * (q.d \div g1))
QDiv(p, q) == QMul(p, Q(q.d, q.n))
\* entry (i, j) of a Matrix, indices from 0 as in the program
At(A, i, j) == Q(A.m[i + 1][j + 1], A.den)

(***************************************************************************)
(* Tolerances.  A value k/d with k >= 0, d > 0 is compared with 1e-10 and  *)
(* 1e-7 exactly, without leaving the integers.                             *)
(***************************************************************************)
\* 1e-10 = 1 / (SqrtInvTol * SqrtInvTol)
SqrtInvTol == 100000
\* 1e-7 = 1 / InvTolTaylor
InvTolTaylor == 10000000

\* k/d < 1e-10
LtTol(k, d) == IF k = 0 THEN TRUE ELSE ((d - 1) \div k) \div SqrtInvTol >= SqrtInvTol
\* k/d > 1e-10
GtTol(k, d) == IF k = 0 THEN FALSE ELSE (d \div k) \div SqrtInvTol < SqrtInvTol
\* k/d > 1e-7
GtTolTaylor(k, d) == IF k = 0 THEN FALSE ELSE d \div k < InvTolTaylor

(***************************************************************************)
(* Vector (a tangent vector): a scalar times the rational vector v/den.    *)
(*   k = "rat"     the scalar 1                                            *)
(*   k = "ang"     the angle t                                             *)
(*   k = "pisqrt"  PI / sqrt(a/b)                                          *)
(*   k = "acos"    theta / (2 sin(theta)) with theta = acos(a/b)           *)
(***************************************************************************)
Vec(kind, v, den, t, a, b) ==
  LET g == GCD(GCD3(v), den)
  IN [k |-> kind, v |-> VDiv(v, g), den |-> den \div g, t |-> t, a |-> a, b |-> b]

\* Vector_(3, x, y, z) of rationals
VecRat(v, den) == Vec("rat", v, den, AngleZero, 0, 1)
\* angle * axis
VecAng(t, v, den) == Vec("ang", v, den, t, 0, 1)
VecPiSqrt(q, v, den) == Vec("pisqrt", v, den, AngleZero, q.n, q.d)
VecAcos(q, v, den) == Vec("acos", v, den, AngleZero, q.n, q.d)
VecZero == VecRat(Zero3, 1)

\* The value of a Vector in a normal form: the zero vector, a rational
\* vector, or (angle in (0, pi]) * (rational vector); a Vector whose scalar
\* has an irrational square root in it is left as it is.
Canon(u) ==
  IF u.v = Zero3 THEN VecZero
  ELSE IF u.k = "ang" THEN
    IF u.t.s = 0 /\ u.t.c > 0 THEN VecZero
    ELSE IF u.t.s < 0 THEN VecAng(AngleNeg(u.t), VScale(-1, u.v), u.den)
    ELSE u
  ELSE IF u.k = "pisqrt" THEN
    IF u.a > 0 /\ IsSquare(u.a * u.b)
      THEN VecAng(AnglePi, VScale(u.b, u.v), u.den * ISqrt(u.a * u.b))
      ELSE u
  ELSE IF u.k = "acos" THEN
    IF IsSquare(u.b * u.b - u.a * u.a) /\ Abs(u.a) < u.b
      THEN VecAng(Angle(u.a, ISqrt(u.b * u.b - u.a * u.a), u.b),
                  VScale(u.b, u.v), u.den * 2 * ISqrt(u.b * u.b - u.a * u.a))
      ELSE u
  ELSE u

VecEq(u, w) == Canon(u) = Canon(w)

(***************************************************************************)
(* Rot3: the three columns r1_, r2_, r3_ over the denominator den.         *)
(***************************************************************************)
\* Rot3(R11, ..., R33): row-major input, stored by columns
Rot3e(R11, R12, R13, R21, R22, R23, R31, R32, R33, den) ==
  LET s == IF den < 0 THEN -1 ELSE 1
      g == GCD(MGcd(<<<<R11, R12, R13>>, <<R21, R22, R23>>, <<R31, R32, R33>>>>), den)
      e(n) == (s * n) \div g
  IN [r1_ |-> <<e(R11), e(R21), e(R31)>>,
      r2_ |-> <<e(R12), e(R22), e(R32)>>,
      r3_ |-> <<e(R13), e(R23), e(R33)>>,
      den |-> (s * den) \div g]

\* Rot3(): the identity
Rot3 == Rot3e(1, 0, 0, 0, 1, 0, 0, 0, 1, 1)

\* Rot3(const Point3& r1, const Point3& r2, const Point3& r3)
Rot3c(p1, p2, p3) ==
  LET l == LCM(p1.den, LCM(p2.den, p3.den))
      a == l \div p1.den
      b == l \div p2.den
      c == l \div p3.den
  IN Rot3e(a * p1.x, b * p2.x, c * p3.x,
           a * p1.y, b * p2.y, c * p3.y,
           a * p1.z, b * p2.z, c * p3.z, l)

\* Rot3(const Matrix& R)
Rot3m(A) ==
  Rot3e(A.m[1][1], A.m[1][2], A.m[1][3],
        A.m[2][1], A.m[2][2], A.m[2][3],
        A.m[3][1], A.m[3][2], A.m[3][3], A.den)

r1(this) == Point3(this.r1_[1], this.r1_[2], this.r1_[3], this.den)
r2(this) == Point3(this.r2_[1], this.r2_[2], this.r2_[3], this.den)
r3(this) == Point3(this.r3_[1], this.r3_[2], this.r3_[3], this.den)

matrix(this) ==
  Mat(<<<<this.r1_[1], this.r2_[1], this.r3_[1]>>,
        <<this.r1_[2], this.r2_[2], this.r3_[2]>>,
        <<this.r1_[3], this.r2_[3], this.r3_[3]>>>>, this.den)

transpose(this) ==
  Mat(<<<<this.r1_[1], this.r1_[2], this.r1_[3]>>,
        <<this.r2_[1], this.r2_[2], this.r2_[3]>>,
        <<this.r3_[1], this.r3_[2], this.r3_[3]>>>>, this.den)

(***************************************************************************)
(* Factories.  sin(t) = t.s / t.d and cos(t) = t.c / t.d.                  *)
(***************************************************************************)
Rx(t) ==
  LET st == t.s
      ct == t.c
  IN Rot3e(t.d,  0,   0,
           0,   ct, -st,
           0,   st,  ct, t.d)

Ry(t) ==
  LET st == t.s
      ct == t.c
  IN Rot3e( ct, 0,   st,
            0,  t.d, 0,
           -st, 0,   ct, t.d)

\* Rz with the sign of one sine lost
Rz_bad(t) ==
  LET st == t.s
      ct == t.c
  IN Rot3e(ct,  st, 0,
           st,  ct, 0,
           0,   0,  t.d, t.d)

Rz(t) ==
  LET st == t.s
      ct == t.c
  IN Rot3e(ct, -st, 0,
           st,  ct, 0,
           0,   0,  t.d, t.d)

\* RzRyRx with a wrong sign in the entry (1, 2)
RzRyRx_bad(x, y, z) ==
  LET cx == x.c
      sx == x.s
      cy == y.c
      sy == y.s
      cz == z.c
      sz == z.s
      ss_ == sx * sy
      cs_ == cx * sy
      sc_ == sx * cy * z.d
      cc_ == cx * cy * z.d
      c_s == cx * sz * y.d
      s_s == sx * sz * y.d
      _cs == cy * sz * x.d
      _cc == cy * cz * x.d
      s_c == sx * cz * y.d
      c_c == cx * cz * y.d
      ssc == ss_ * cz
      csc == cs_ * cz
      sss == ss_ * sz
      css == cs_ * sz
  IN Rot3e(_cc,              c_s + ssc,  s_s + csc,
           _cs,              c_c + sss, -s_c + css,
           -sy * x.d * z.d,  sc_,        cc_,        x.d * y.d * z.d)

\* every entry is written over the denominator x.d * y.d * z.d
RzRyRx(x, y, z) ==
  LET cx == x.c
      sx == x.s
      cy == y.c
      sy == y.s
      cz == z.c
      sz == z.s
      ss_ == sx * sy
      cs_ == cx * sy
      sc_ == sx * cy * z.d
      cc_ == cx * cy * z.d
      c_s == cx * sz * y.d
      s_s == sx * sz * y.d
      _cs == cy * sz * x.d
      _cc == cy * cz * x.d
      s_c == sx * cz * y.d
      c_c == cx * cz * y.d
      ssc == ss_ * cz
      csc == cs_ * cz
      sss == ss_ * sz
      css == cs_ * sz
  IN Rot3e(_cc,            - c_s + ssc,  s_s + csc,
           _cs,              c_c + sss, -s_c + css,
           -sy * x.d * z.d,  sc_,        cc_,        x.d * y.d * z.d)

\* rodriguez with the skew-symmetric part transposed
rodriguez_bad(w, theta) ==
  LET wx == w.x
      wy == w.y
      wz == w.z
      c == theta.c * w.den * w.den
      s == theta.s
      c_1 == theta.d - theta.c
      swx == wx * s * w.den
      swy == wy * s * w.den
      swz == wz * s * w.den
      C00 == c_1 * wx * wx
      C01 == c_1 * wx * wy
      C02 == c_1 * wx * wz
      C11 == c_1 * wy * wy
      C12 == c_1 * wy * wz
      C22 == c_1 * wz * wz
  IN Rot3e(  c + C00,  swz + C01, -swy + C02,
          -swz + C01,    c + C11,  swx + C12,
           swy + C02, -swx + C12,    c + C22, theta.d * w.den * w.den)

\* rodriguez(w, theta) for a unit axis w (a Point3) and an angle theta;
\* every entry is written over the denominator theta.d * w.den * w.den
\* (the debug-build test of the length of w never fires: every axis the
\* calls pass has length 1 exactly)
rodriguez(w, theta) ==
  LET wx == w.x
      wy == w.y
      wz == w.z
      wwTxx == wx * wx
      wwTyy == wy * wy
      wwTzz == wz * wz
      c == theta.c * w.den * w.den
      s == theta.s
      c_1 == theta.d - theta.c
      swx == wx * s * w.den
      swy == wy * s * w.den
      swz == wz * s * w.den
      C00 == c_1 * wwTxx
      C01 == c_1 * wx * wy
      C02 == c_1 * wx * wz
      C11 == c_1 * wwTyy
      C12 == c_1 * wy * wz
      C22 == c_1 * wwTzz
  IN Rot3e(  c + C00, -swz + C01,  swy + C02,
           swz + C01,    c + C11, -swx + C12,
          -swy + C02,  swx + C12,    c + C22, theta.d * w.den * w.den)

\* rodriguez(w): a tangent vector w is within the domain of the model when
\* it is rational with a rational norm below 1e-10, or angle * unit axis
rodriguezDefined(w) ==
  \/ w.k = "rat" /\ IsSquare(Dot(w.v, w.v)) /\ LtTol(ISqrt(Dot(w.v, w.v)), w.den)
  \/ w.k = "ang" /\ Dot(w.v, w.v) = w.den * w.den

\* t = w.norm() is |angle| for angle * unit axis, so t < 1e-10 only for the
\* angle 0, and w / t is the axis with the sign of the angle
rodriguezW(w) ==
  IF w.k = "rat" THEN Rot3
  ELSE IF w.t.s = 0 /\ w.t.c > 0 THEN Rot3
  ELSE LET sg == IF w.t.s < 0 THEN -1 ELSE 1
       IN rodriguez(Point3(sg * w.v[1], sg * w.v[2], sg * w.v[3], w.den), AngleAbs(w.t))

\* Expmap(v) = rodriguez(v)
Expmap(w) == rodriguezW(w)

(***************************************************************************)
(* Group operations.  h1, h2 tell whether the optional Jacobian slot is    *)
(* supplied; a result carries the returned value and the two slots.        *)
(***************************************************************************)
\* r1_ * p.x() + r2_ * p.y() + r3_ * p.z()
rotatePoint(this, p) ==
  LET v == VAdd(VAdd(VScale(p.x, this.r1_), VScale(p.y, this.r2_)), VScale(p.z, this.r3_))
  IN Point3(v[1], v[2], v[3], this.den * p.den)

rotate(this, p, h1, h2) ==
  LET Rm == matrix(this)
  IN [value |-> rotatePoint(this, p),
      H1 |-> IF h1 THEN MatMul(Rm, skewSymmetric(-p.x, -p.y, -p.z, p.den)) ELSE NoMatrix,
      H2 |-> IF h2 THEN Rm ELSE NoMatrix]

\* operator* with the second column used twice
times_bad(this, R2) ==
  Rot3c(rotate(this, r1(R2), FALSE, FALSE).value,
        rotate(this, r2(R2), FALSE, FALSE).value,
        rotate(this, r2(R2), FALSE, FALSE).value)

\* Rot3::operator*(const Rot3& R2)
times(this, R2) ==
  Rot3c(rotate(this, r1(R2), FALSE, FALSE).value,
        rotate(this, r2(R2), FALSE, FALSE).value,
        rotate(this, r3(R2), FALSE, FALSE).value)

compose(this, R2, h1, h2) ==
  [value |-> times(this, R2),
   H1 |-> IF h1 THEN transpose(R2) ELSE NoMatrix,
   H2 |-> IF h2 THEN I3 ELSE NoMatrix]

inverse(this, h1) ==
  [value |-> Rot3e(this.r1_[1], this.r1_[2], this.r1_[3],
                   this.r2_[1], this.r2_[2], this.r2_[3],
                   this.r3_[1], this.r3_[2], this.r3_[3], this.den),
   H1 |-> IF h1 THEN MatNeg(matrix(this)) ELSE NoMatrix,
   H2 |-> NoMatrix]

\* between_default(l1, l2) = l1.inverse() * l2
between_default(l1, l2) == times(inverse(l1, FALSE).value, l2)

\* between with the factors of H1 in the other order
between_bad(this, R2, h1, h2) ==
  [value |-> between_default(this, R2),
   H1 |-> IF h1 THEN MatNeg(MatMul(matrix(this), transpose(R2))) ELSE NoMatrix,
   H2 |-> IF h2 THEN I3 ELSE NoMatrix]

between(this, R2, h1, h2) ==
  [value |-> between_default(this, R2),
   H1 |-> IF h1 THEN MatNeg(MatMul(transpose(R2), matrix(this))) ELSE NoMatrix,
   H2 |-> IF h2 THEN I3 ELSE NoMatrix]

unrotate(this, p, h1, h2) ==
  LET q == Point3(this.r1_[1] * p.x + this.r1_[2] * p.y + this.r1_[3] * p.z,
                  this.r2_[1] * p.x + this.r2_[2] * p.y + this.r2_[3] * p.z,
                  this.r3_[1] * p.x + this.r3_[2] * p.y + this.r3_[3] * p.z,
                  this.den * p.den)
  IN [value |-> q,
      H1 |-> IF h1 THEN skewSymmetric(q.x, q.y, q.z, q.den) ELSE NoMatrix,
      H2 |-> IF h2 THEN transpose(this) ELSE NoMatrix]

\* column that returns r1 for every other index
column_bad(this, index) ==
  IF index = 3 THEN [threw |-> FALSE, value |-> r3(this)]
  ELSE IF index = 2 THEN [threw |-> FALSE, value |-> r2(this)]
  ELSE [threw |-> FALSE, value |-> r1(this)]

\* column(index): the column, or an invalid_argument exception
column(this, index) ==
  IF index = 3 THEN [threw |-> FALSE, value |-> r3(this)]
  ELSE IF index = 2 THEN [threw |-> FALSE, value |-> r2(this)]
  ELSE IF index = 1 THEN [threw |-> FALSE, value |-> r1(this)]
  ELSE [threw |-> TRUE, value |-> Point3(0, 0, 0, 1)]

(***************************************************************************)
(* Logmap.                                                                 *)
(***************************************************************************)
\* the diagonal entries tried in the order R11, R22, R33
LogmapBranch_bad(Rr) ==
  LET d == Rr.den
      tr == Rr.r1_[1] + Rr.r2_[2] + Rr.r3_[3]
  IN IF LtTol(Abs(tr + d), d) THEN
       IF GtTol(Abs(Rr.r1_[1] + d), d) THEN "R11"
       ELSE IF GtTol(Abs(Rr.r2_[2] + d), d) THEN "R22"
       ELSE "R33"
     ELSE IF 3 * d - tr > 0 /\ GtTolTaylor(3 * d - tr, d) THEN "acos"
     ELSE "taylor"

\* which of the four return statements Logmap takes
LogmapBranch(Rr) ==
  LET d == Rr.den
      tr == Rr.r1_[1] + Rr.r2_[2] + Rr.r3_[3]
  IN IF LtTol(Abs(tr + d), d) THEN
       IF GtTol(Abs(Rr.r3_[3] + d), d) THEN "R33"
       ELSE IF GtTol(Abs(Rr.r2_[2] + d), d) THEN "R22"
       ELSE "R11"
     ELSE IF 3 * d - tr > 0 /\ GtTolTaylor(3 * d - tr, d) THEN "acos"
     ELSE "taylor"

Logmap(Rr) ==
  LET d == Rr.den
      tr == Rr.r1_[1] + Rr.r2_[2] + Rr.r3_[3]
      tr_3 == tr - 3 * d
      br == LogmapBranch(Rr)
      skew == <<Rr.r2_[3] - Rr.r3_[2], Rr.r3_[1] - Rr.r1_[3], Rr.r1_[2] - Rr.r2_[1]>>
  IN IF br = "R33" THEN
       VecPiSqrt(Q(2 * d + 2 * Rr.r3_[3], d), <<Rr.r3_[1], Rr.r3_[2], d + Rr.r3_[3]>>, d)
     ELSE IF br = "R22" THEN
       VecPiSqrt(Q(2 * d + 2 * Rr.r2_[2], d), <<Rr.r2_[1], d + Rr.r2_[2], Rr.r2_[3]>>, d)
     ELSE IF br = "R11" THEN
       VecPiSqrt(Q(2 * d + 2 * Rr.r1_[1], d), <<d + Rr.r1_[1], Rr.r1_[2], Rr.r1_[3]>>, d)
     ELSE IF br = "acos" THEN
       \* theta = acos((tr - 1) / 2), magnitude = theta / (2 sin(theta))
       VecAcos(Q(tr - d, 2 * d), skew, d)
     ELSE
       \* magnitude = 0.5 - tr_3 * tr_3 / 12
       LET magnitude == QSub(Q(1, 2), Q(tr_3 * tr_3, 12 * d * d))
       IN VecRat(VScale(magnitude.n, skew), magnitude.d * d)

(***************************************************************************)
(* retract and localCoordinates.                                           *)
(***************************************************************************)
CoordinatesMode == {"EXPMAP", "CALEY", "SLOW_CALEY"}

retractDefined(omega, mode) ==
  IF mode = "EXPMAP" THEN rodriguezDefined(omega)
  ELSE omega.k = "rat"

\* the closed form with a wrong sign in the entry (1, 2)
retractCayley_bad(this, omega) ==
  LET e == omega.den
      x == omega.v[1]
      y == omega.v[2]
      z == omega.v[3]
      x2 == x * x
      y2 == y * y
      z2 == z * z
      xy == x * y
      xz == x * z
      yz == y * z
      four == 4 * e * e
      two == 2 * e
  IN times(this, Rot3e(
       four + x2 - y2 - z2,  (xy + two * z) * 2,   (xz + two * y) * 2,
       (xy + two * z) * 2,   four - x2 + y2 - z2,  (yz - two * x) * 2,
       (xz - two * y) * 2,   (yz + two * x) * 2,   four - x2 - y2 + z2,
       four + x2 + y2 + z2))

\* the nine closed-form entries, written over 4 + x2 + y2 + z2
retractCayley(this, omega) ==
  LET e == omega.den
      x == omega.v[1]
      y == omega.v[2]
      z == omega.v[3]
      x2 == x * x
      y2 == y * y
      z2 == z * z
      xy == x * y
      xz == x * z
      yz == y * z
      four == 4 * e * e
      two == 2 * e
  IN times(this, Rot3e(
       four + x2 - y2 - z2,  (xy - two * z) * 2,   (xz + two * y) * 2,
       (xy + two * z) * 2,   four - x2 + y2 - z2,  (yz - two * x) * 2,
       (xz - two * y) * 2,   (yz + two * x) * 2,   four - x2 - y2 + z2,
       four + x2 + y2 + z2))

retractSlowCayley(this, omega) ==
  LET Omega == skewSymmetric(omega.v[1], omega.v[2], omega.v[3], omega.den)
  IN times(this, Rot3m(Cayley(MatDivInt(MatNeg(Omega), 2))))

retract(this, omega, mode) ==
  IF mode = "EXPMAP" THEN times(this, Expmap(omega))
  ELSE IF mode = "CALEY" THEN retractCayley(this, omega)
  ELSE retractSlowCayley(this, omega)

\* the divisor of K in the closed form of the CALEY chart
CayleyK(A) ==
  LET a == At(A, 0, 0)
      b == At(A, 0, 1)
      c == At(A, 0, 2)
      d == At(A, 1, 0)
      e == At(A, 1, 1)
      f == At(A, 1, 2)
      g == At(A, 2, 0)
      h == At(A, 2, 1)
      i == At(A, 2, 2)
      di == QMul(d, i)
      ce == QMul(c, e)
      cd == QMul(c, d)
      fg == QMul(f, g)
      M == QAdd(QAdd(QSub(QAdd(QInt(1), e), QMul(f, h)), i), QMul(e, i))
  IN QSub(QSub(QAdd(QAdd(QMul(cd, h), M), QMul(a, M)),
               QMul(g, QAdd(c, ce))),
          QMul(b, QSub(QAdd(d, di), fg)))

\* the closed form scaled by 2 instead of -2
localCoordinatesCayley_bad(A) ==
  LET a == At(A, 0, 0)
      b == At(A, 0, 1)
      c == At(A, 0, 2)
      d == At(A, 1, 0)
      e == At(A, 1, 1)
      f == At(A, 1, 2)
      g == At(A, 2, 0)
      i == At(A, 2, 2)
      K == QDiv(QInt(2), CayleyK(A))
      x == QMul(QAdd(QSub(QMul(a, f), QMul(c, d)), f), K)
      y == QMul(QSub(QSub(QMul(b, f), QMul(c, e)), c), K)
      z == QMul(QSub(QSub(QMul(f, g), QMul(d, i)), d), K)
      l == LCM(x.d, LCM(y.d, z.d))
  IN VecRat(<<2 * x.n * (l \div x.d), 2 * y.n * (l \div y.d), 2 * z.n * (l \div z.d)>>, l)

localCoordinatesCayley(A) ==
  LET a == At(A, 0, 0)
      b == At(A, 0, 1)
      c == At(A, 0, 2)
      d == At(A, 1, 0)
      e == At(A, 1, 1)
      f == At(A, 1, 2)
      g == At(A, 2, 0)
      i == At(A, 2, 2)
      di == QMul(d, i)
      ce == QMul(c, e)
      cd == QMul(c, d)
      fg == QMul(f, g)
      K == QDiv(QInt(2), CayleyK(A))
      x == QMul(QAdd(QSub(QMul(a, f), cd), f), K)
      y == QMul(QSub(QSub(QMul(b, f), ce), c), K)
      z == QMul(QSub(QSub(fg, di), d), K)
      l == LCM(x.d, LCM(y.d, z.d))
  IN VecRat(<<-2 * x.n * (l \div x.d), -2 * y.n * (l \div y.d), -2 * z.n * (l \div z.d)>>, l)

localCoordinatesSlowCayley(A) ==
  LET Omega == Cayley(A)
  IN VecRat(<<-2 * Omega.m[3][2], -2 * Omega.m[1][3], -2 * Omega.m[2][1]>>, Omega.den)

\* the doubles of the program are never divided by an exact zero here
localCoordinatesDefined(this, T, mode) ==
  LET A == matrix(between(this, T, FALSE, FALSE).value)
  IN IF mode = "CALEY" THEN CayleyK(A).n # 0
     ELSE IF mode = "SLOW_CALEY" THEN CayleyDefined(A)
     ELSE TRUE

localCoordinates(this, T, mode) ==
  IF mode = "EXPMAP" THEN Logmap(between(this, T, FALSE, FALSE).value)
  ELSE IF mode = "CALEY" THEN
    localCoordinatesCayley(matrix(between(this, T, FALSE, FALSE).value))
  ELSE localCoordinatesSlowCayley(matrix(between(this, T, FALSE, FALSE).value))

(***************************************************************************)
(* RQ.                                                                     *)
(***************************************************************************)
\* the three calls of atan2 are exact
RQDefined(A) ==
  /\ Atan2Defined(-A.m[3][2], A.m[3][3])
  /\ LET x == AngleNeg(atan2(-A.m[3][2], A.m[3][3]))
         B == MatMul(A, matrix(Rx(AngleNeg(x))))
     IN /\ Atan2Defined(B.m[3][1], B.m[3][3])
        /\ LET y == AngleNeg(atan2(B.m[3][1], B.m[3][3]))
               C == MatMul(B, matrix(Ry(AngleNeg(y))))
           IN Atan2Defined(-C.m[2][1], C.m[2][2])

\* RQ that applies Ry(y) where Ry(-y) is meant
RQ_bad(A) ==
  LET x == AngleNeg(atan2(-A.m[3][2], A.m[3][3]))
      Qx == Rx(AngleNeg(x))
      B == MatMul(A, matrix(Qx))
      y == AngleNeg(atan2(B.m[3][1], B.m[3][3]))
      Qy == Ry(y)
      C == MatMul(B, matrix(Qy))
      z == AngleNeg(atan2(-C.m[2][1], C.m[2][2]))
      Qz == Rz(AngleNeg(z))
      Rr == MatMul(C, matrix(Qz))
  IN [R |-> Rr, xyz |-> <<x, y, z>>]

RQ(A) ==
  LET x == AngleNeg(atan2(-A.m[3][2], A.m[3][3]))
      Qx == Rx(AngleNeg(x))
      B == MatMul(A, matrix(Qx))
      y == AngleNeg(atan2(B.m[3][1], B.m[3][3]))
      Qy == Ry(AngleNeg(y))
      C == MatMul(B, matrix(Qy))
      z == AngleNeg(atan2(-C.m[2][1], C.m[2][2]))
      Qz == Rz(AngleNeg(z))
      Rr == MatMul(C, matrix(Qz))
  IN [R |-> Rr, xyz |-> <<x, y, z>>]

xyz(this) == RQ(matrix(this)).xyz
ypr(this) == LET q == xyz(this) IN <<q[3], q[2], q[1]>>
rpy(this) == LET q == xyz(this) IN <<q[1], q[2], q[3]>>

(***************************************************************************)
(* The inputs of the calls.                                                *)
(***************************************************************************)
\* the multiples of pi/2 and an angle of the 3-4-5 triangle
Angles ==
  {Angle(1, 0, 1), Angle(0, 1, 1), Angle(-1, 0, 1), Angle(0, -1, 1),
   Angle(3, 4, 5)}

\* unit axes
Axes ==
  {Point3(1, 0, 0, 1), Point3(0, 1, 0, 1), Point3(0, 0, 1, 1),
   Point3(-1, 0, 0, 1), Point3(0, -1, 0, 1), Point3(0, 0, -1, 1),
   Point3(1, 2, 2, 3), Point3(0, -3, 4, 5)}

\* rational tangent vectors
RatOmegas ==
  {VecRat(<<x, y, z>>, 1) :
     x \in -MaxOmega..MaxOmega, y \in -MaxOmega..MaxOmega, z \in -MaxOmega..MaxOmega}

\* tangent vectors angle * unit axis
AngOmegas == {VecAng(t, PNum(w), w.den) : t \in Angles, w \in Axes}

Omegas == RatOmegas \cup AngOmegas

Points ==
  {Point3(x, y, z, 1) :
     x \in -MaxPoint..MaxPoint, y \in -MaxPoint..MaxPoint, z \in -MaxPoint..MaxPoint}

Indices == -1..MaxIndex

(***************************************************************************)
(* The client.  R is the rotation it keeps; ret is what the last call      *)
(* returned (ret.op names the call).  A rotation just returned may be the  *)
(* operand of one more call, and may be kept in R.                         *)
(***************************************************************************)
NoCall == [op |-> "none", nested |-> FALSE]

RotOps ==
  {"Rot3", "Rx", "Ry", "Rz", "RzRyRx", "rodriguez", "rodriguezW",
   "compose", "inverse", "between", "retract"}

Idle == ret.op = "none"
HasT == ret.op \in RotOps
Nest == HasT /\ ~ret.nested

\* the operands a call with one rotation may take
Operand1 == IF Idle THEN {R} ELSE IF Nest THEN {ret.value} ELSE {}
\* the operands a call with two rotations may take
Operand2 ==
  IF Idle THEN {<<R, R>>}
  ELSE IF Nest THEN {<<R, ret.value>>, <<ret.value, R>>, <<ret.value, ret.value>>}
  ELSE {}

\* the Jacobian slots a call may be given: any combination on R alone, both
\* or none when an operand is the rotation just returned
Slots ==
  IF Idle THEN BOOLEAN \X BOOLEAN ELSE {<<FALSE, FALSE>>, <<TRUE, TRUE>>}

Init ==
  /\ R = Rot3
  /\ ret = NoCall

CallRot3 ==
  /\ Idle
  /\ ret' = [op |-> "Rot3", nested |-> FALSE, value |-> Rot3]
  /\ UNCHANGED R

CallRx ==
  /\ Idle
  /\ \E t \in Angles :
       ret' = [op |-> "Rx", nested |-> FALSE, t |-> t, value |-> Rx(t)]
  /\ UNCHANGED R

CallRy ==
  /\ Idle
  /\ \E t \in Angles :
       ret' = [op |-> "Ry", nested |-> FALSE, t |-> t, value |-> Ry(t)]
  /\ UNCHANGED R

CallRz ==
  /\ Idle
  /\ \E t \in Angles :
       ret' = [op |-> "Rz", nested |-> FALSE, t |-> t, value |-> Rz(t)]
  /\ UNCHANGED R

CallRzRyRx ==
  /\ Idle
  /\ \E x \in Angles, y \in Angles, z \in Angles :
       ret' = [op |-> "RzRyRx", nested |-> FALSE, x |-> x, y |-> y, z |-> z,
               value |-> RzRyRx(x, y, z)]
  /\ UNCHANGED R

CallRodriguez ==
  /\ Idle
  /\ \E w \in Axes, theta \in Angles :
       ret' = [op |-> "rodriguez", nested |-> FALSE, w |-> w, theta |-> theta,
               value |-> rodriguez(w, theta)]
  /\ UNCHANGED R

CallRodriguezW ==
  /\ Idle
  /\ \E w \in Omegas :
       /\ rodriguezDefined(w)
       /\ ret' = [op |-> "rodriguezW", nested |-> FALSE, w |-> w,
                  value |-> rodriguezW(w)]
  /\ UNCHANGED R

CallCompose ==
  /\ \E o \in Operand2, h \in Slots :
       LET c == compose(o[1], o[2], h[1], h[2])
       IN ret' = [op |-> "compose", nested |-> ~Idle, this |-> o[1], R2 |-> o[2],
                  h1 |-> h[1], h2 |-> h[2], value |-> c.value, H1 |-> c.H1, H2 |-> c.H2]
  /\ UNCHANGED R

CallInverse ==
  /\ \E o \in Operand1, h1 \in BOOLEAN :
       LET c == inverse(o, h1)
       IN ret' = [op |-> "inverse", nested |-> ~Idle, this |-> o,
                  h1 |-> h1, value |-> c.value, H1 |-> c.H1]
  /\ UNCHANGED R

CallBetween ==
  /\ \E o \in Operand2, h \in Slots :
       LET c == between(o[1], o[2], h[1], h[2])
       IN ret' = [op |-> "between", nested |-> ~Idle, this |-> o[1], R2 |-> o[2],
                  h1 |-> h[1], h2 |-> h[2], value |-> c.value, H1 |-> c.H1, H2 |-> c.H2]
  /\ UNCHANGED R

CallRotate ==
  /\ Idle
  /\ \E p \in Points, h1 \in BOOLEAN, h2 \in BOOLEAN :
       LET c == rotate(R, p, h1, h2)
       IN ret' = [op |-> "rotate", nested |-> FALSE, this |-> R, p |-> p,
                  h1 |-> h1, h2 |-> h2, point |-> c.value, H1 |-> c.H1, H2 |-> c.H2]
  /\ UNCHANGED R

CallUnrotate ==
  /\ Idle
  /\ \E p \in Points, h1 \in BOOLEAN, h2 \in BOOLEAN :
       LET c == unrotate(R, p, h1, h2)
       IN ret' = [op |-> "unrotate", nested |-> FALSE, this |-> R, p |-> p,
                  h1 |-> h1, h2 |-> h2, point |-> c.value, H1 |-> c.H1, H2 |-> c.H2]
  /\ UNCHANGED R

\* Logmap of R, or of the rotation just returned (prev tells how it was made)
CallLogmap ==
  /\ \E o \in Operand1 :
       ret' = [op |-> "Logmap", nested |-> ~Idle, arg |-> o, prev |-> ret,
               branch |-> LogmapBranch(o), vec |-> Logmap(o)]
  /\ UNCHANGED R

CallRetract ==
  /\ Idle
  /\ \E omega \in Omegas, mode \in CoordinatesMode :
       /\ retractDefined(omega, mode)
       /\ ret' = [op |-> "retract", nested |-> FALSE, this |-> R, omega |-> omega,
                  mode |-> mode, value |-> retract(R, omega, mode)]
  /\ UNCHANGED R

\* localCoordinates of R itself, or of the rotation just returned
CallLocalCoordinates ==
  /\ \E T \in Operand1, mode \in CoordinatesMode :
       /\ localCoordinatesDefined(R, T, mode)
       /\ ret' = [op |-> "localCoordinates", nested |-> ~Idle, this |-> R, T |-> T,
                  mode |-> mode, prev |-> ret, vec |-> localCoordinates(R, T, mode)]
  /\ UNCHANGED R

CallColumn ==
  /\ Idle
  /\ \E index \in Indices :
       LET c == column(R, index)
       IN ret' = [op |-> "column", nested |-> FALSE, this |-> R, index |-> index,
                  threw |-> c.threw, point |-> c.value]
  /\ UNCHANGED R

CallRQ ==
  /\ \E o \in Operand1 :
       /\ RQDefined(matrix(o))
       /\ LET c == RQ(matrix(o))
          IN ret' = [op |-> "RQ", nested |-> ~Idle, A |-> matrix(o),
                     Rm |-> c.R, xyz |-> c.xyz]
  /\ UNCHANGED R

\* the client drops what was returned
Return ==
  /\ ~Idle
  /\ ret' = NoCall
  /\ UNCHANGED R

\* the client keeps the rotation that was returned
Assign ==
  /\ HasT
  /\ ret.value.den <= MaxDen
  /\ R' = ret.value
  /\ ret' = NoCall

Next ==
  \/ CallRot3
  \/ CallRx
  \/ CallRy
  \/ CallRz
  \/ CallRzRyRx
  \/ CallRodriguez
  \/ CallRodriguezW
  \/ CallCompose
  \/ CallInverse
  \/ CallBetween
  \/ CallRotate
  \/ CallUnrotate
  \/ CallLogmap
  \/ CallRetract
  \/ CallLocalCoordinates
  \/ CallColumn
  \/ CallRQ
  \/ Return
  \/ Assign

Spec == Init /\ [][Next]_vars

(***************************************************************************)
(* Reference definitions used by the properties: plain matrix algebra on   *)
(* the dense matrix of a rotation.                                         *)
(***************************************************************************)
MatT(A) == Mat(MTrans(A.m), A.den)
MatVec(A, p) ==
  Point3(Dot(A.m[1], PNum(p)), Dot(A.m[2], PNum(p)), Dot(A.m[3], PNum(p)), A.den * p.den)
MatColumn(A, j) == Point3(A.m[1][j], A.m[2][j], A.m[3][j], A.den)
Cross(u, v) ==
  <<u[2] * v[3] - u[3] * v[2], u[3] * v[1] - u[1] * v[3], u[1] * v[2] - u[2] * v[1]>>
\* transpose(X) * X = I and det(X) = +1; with orthonormal columns the
\* determinant is +1 exactly when the third column is the cross product of
\* the first two
IsRotation(X) ==
  LET m == matrix(X).m
  IN /\ MMul(MTrans(m), m) = MScale(X.den * X.den, Eye)
     /\ Cross(MCol(m, 1), MCol(m, 2)) = VScale(X.den, MCol(m, 3))
Slot(supplied, A) == IF supplied THEN A ELSE NoMatrix

(***************************************************************************)
(* C1.                                                                     *)
(***************************************************************************)
\* C1 as stated: for each of the 24 rotation matrices A with entries in
\* {-1, 0, 1}, the pair (R, (x, y, z)) returned by RQ(A) satisfies
\* A = R * Rx(x) * Ry(y) * Rz(z).
Cex_C1 ==
  (ret.op = "RQ" /\ ret.A.den = 1) =>
    ret.A = MatMul(MatMul(MatMul(ret.Rm, matrix(Rx(ret.xyz[1]))),
                          matrix(Ry(ret.xyz[2]))), matrix(Rz(ret.xyz[3])))

\* C1 amended: the pair (R, (x, y, z)) returned by RQ(A) satisfies
\* A = R * Rz(z) * Ry(y) * Rx(x): the elementary rotations are multiplied
\* in the order Rz first, Rx last.
Thm_C1 ==
  ret.op = "RQ" =>
    ret.A = MatMul(MatMul(MatMul(ret.Rm, matrix(Rz(ret.xyz[3]))),
                          matrix(Ry(ret.xyz[2]))), matrix(Rx(ret.xyz[1])))

\* RQ was applied to one of the 24 matrices and extracted two nonzero angles
Wit_C1 ==
  /\ ret.op = "RQ"
  /\ ret.A.den = 1
  /\ ret.xyz[2] # AngleZero
  /\ ret.xyz[3] # AngleZero

(***************************************************************************)
(* C2.                                                                     *)
(***************************************************************************)
\* the tangent vector is inside the radius of the chart: for EXPMAP its
\* norm, the absolute value of the angle, is below pi
InRadius(omega, mode) == mode = "EXPMAP" => (omega.k = "ang" => omega.t # AnglePi)

Thm_C3 ==
  (ret.op = "retract" /\ ret.mode # "EXPMAP") =>
    LET Omega == skewSymmetric(ret.omega.v[1], ret.omega.v[2], ret.omega.v[3],
                               ret.omega.den)
        twoI == Mat(MScale(2, Eye), 1)
    IN /\ MatMul(matrix(ret.value), MatSub(twoI, Omega))
            = MatMul(matrix(ret.this), MatAdd(twoI, Omega))
       /\ ret.value = retract(ret.this, ret.omega, "CALEY")
       /\ ret.value = retract(ret.this, ret.omega, "SLOW_CALEY")

\* a CALEY retract along (1, -1, 1) from a rotation other than the identity
Wit_C3 ==
  /\ ret.op = "retract"
  /\ ret.mode = "CALEY"
  /\ ret.omega = VecRat(<<1, -1, 1>>, 1)
  /\ ret.this # Rot3

Thm_C5 ==
  /\ ret.op = "compose" =>
       /\ matrix(ret.value) = MatMul(matrix(ret.this), matrix(ret.R2))
       /\ ret.H1 = Slot(ret.h1, MatT(matrix(ret.R2)))
       /\ ret.H2 = Slot(ret.h2, Mat(Eye, 1))
  /\ ret.op = "inverse" =>
       /\ matrix(ret.value) = MatT(matrix(ret.this))
       /\ ret.H1 = Slot(ret.h1, MatNeg(matrix(ret.this)))
  /\ ret.op = "between" =>
       /\ matrix(ret.value) = MatMul(MatT(matrix(ret.this)), matrix(ret.R2))
       /\ ret.H1 = Slot(ret.h1, MatNeg(MatMul(MatT(matrix(ret.R2)), matrix(ret.this))))
       /\ ret.H2 = Slot(ret.h2, Mat(Eye, 1))
  /\ ret.op = "rotate" =>
       /\ ret.point = MatVec(matrix(ret.this), ret.p)
       /\ ret.H1 = Slot(ret.h1, MatMul(matrix(ret.this),
                                       skewSymmetric(-ret.p.x, -ret.p.y, -ret.p.z, ret.p.den)))
       /\ ret.H2 = Slot(ret.h2, matrix(ret.this))
  /\ ret.op = "unrotate" =>
       LET q == MatVec(MatT(matrix(ret.this)), ret.p)
       IN /\ ret.point = q
          /\ ret.H1 = Slot(ret.h1, skewSymmetric(q.x, q.y, q.z, q.den))
          /\ ret.H2 = Slot(ret.h2, MatT(matrix(ret.this)))

\* between of two different rotations, one with a denominator, both slots
\* supplied
Wit_C5 ==
  /\ ret.op = "between"
  /\ ret.h1
  /\ ret.h2
  /\ ret.this.den > 1
  /\ ret.R2 # ret.this
  /\ ret.R2 # Rot3

(***************************************************************************)
(* C6.                                                                     *)
(***************************************************************************)
\* C6: compose(Identity, R) = R, compose(R, Identity) = R and
\* compose(inverse(R), R) = Identity.
Thm_C6 ==
  ret.op = "compose" =>
    /\ ret.this = Rot3 => ret.value = ret.R2
    /\ ret.R2 = Rot3 => ret.value = ret.this
    /\ ret.this = inverse(ret.R2, FALSE).value => ret.value = Rot3

\* inverse(R) composed with R, for an R that is not its own inverse
Wit_C6 ==
  /\ ret.op = "compose"
  /\ ret.nested
  /\ ret.this = inverse(ret.R2, FALSE).value
  /\ ret.this # ret.R2
  /\ ret.R2 = R

(***************************************************************************)
(* C7.                                                                     *)
(***************************************************************************)
\* C7: RzRyRx(x, y, z) equals the composed product Rz(z) * Ry(y) * Rx(x)
\* entry by entry.
Thm_C7 ==
  ret.op = "RzRyRx" =>
    ret.value = times(times(Rz(ret.z), Ry(ret.y)), Rx(ret.x))

\* RzRyRx of three angles none of which is a multiple of pi/2, and of three
\* different angles
Wit_C7 ==
  /\ ret.op = "RzRyRx"
  /\ ret.value.den = 125

NearMinusOne(n, d) == LtTol(Abs(n + d), d)

\* the first diagonal index, in the order 3, 2, 1, whose entry is not within
\* 1e-10 of -1 (0 when there is none)
PiIndex(A) ==
  IF ~NearMinusOne(A.m[3][3], A.den) THEN 3
  ELSE IF ~NearMinusOne(A.m[2][2], A.den) THEN 2
  ELSE IF ~NearMinusOne(A.m[1][1], A.den) THEN 1
  ELSE 0

\* C10: when the trace is within 1e-10 of -1, Logmap returns
\* PI / sqrt(2 + 2 Rii) times column i of (I + R) for the first i in the
\* order 3, 2, 1 with Rii not near -1; such an i exists and 2 + 2 Rii > 0;
\* Logmap(diag(-1,-1,1)) = (0,0,PI) and Logmap(diag(1,-1,-1)) = (PI,0,0).
Thm_C10 ==
  ret.op = "Logmap" =>
    LET A == matrix(ret.arg)
        i == PiIndex(A)
    IN /\ NearMinusOne(A.m[1][1] + A.m[2][2] + A.m[3][3], A.den) =>
            /\ i # 0
            /\ ret.branch = <<"R11", "R22", "R33">>[i]
            /\ 2 * A.den + 2 * A.m[i][i] > 0
            /\ ret.vec = VecPiSqrt(Q(2 * A.den + 2 * A.m[i][i], A.den),
                                   MCol(MAdd(MScale(A.den, Eye), A.m), i), A.den)
       /\ ret.arg = Rot3e(-1, 0, 0, 0, -1, 0, 0, 0, 1, 1)
            => VecEq(ret.vec, VecAng(AnglePi, <<0, 0, 1>>, 1))
       /\ ret.arg = Rot3e(1, 0, 0, 0, -1, 0, 0, 0, -1, 1)
            => VecEq(ret.vec, VecAng(AnglePi, <<1, 0, 0>>, 1))

\* Logmap took the last, unchecked branch
Wit_C10 ==
  /\ ret.op = "Logmap"
  /\ ret.branch = "R11"
====
